---- MODULE Spec2Model ----
(***************************************************************************)
(* State-machine model of the ImageToPdfConverter component                *)
(* (src/components/image-to-pdf-converter.tsx, lines 334-484): the React   *)
(* state of the component, its event handlers, and the asynchronous        *)
(* convertToPdf run with the calls it makes on the jsPDF document.         *)
(*                                                                         *)
(* Numbers of the source are IEEE doubles; the model computes the same     *)
(* expressions in exact rational arithmetic (a rational is a pair          *)
(* <<numerator, denominator>> in lowest terms with a positive              *)
(* denominator), so results are the values the source approximates.        *)
(***************************************************************************)
EXTENDS Integers, Sequences, FiniteSets, TLC

\* ------------------------------------------------------------------ bounds
\* Most files the user drops over the component's life.
MaxImages == 2
\* Most files one drop delivers.
MaxDrop == 2
\* Most user events (drop, rotate, remove, clear, select) taken while a run is
\* in progress or after it has ended, per run.
MaxUserOps == 1
\* Largest intrinsic width / height drawn for the placement specification.
MaxDim == 3

\* -------------------------------------------------------------- rationals
Abs(n) == IF n < 0 THEN -n ELSE n

\* Euclid's algorithm, as a function so that each argument is evaluated once.
GCD(a, b) ==
    LET gcd[x \in Nat, y \in Nat] == IF y = 0 THEN x ELSE gcd[y, x % y]
    IN  gcd[a, b]

\* The rational n/d in lowest terms, d # 0.
Rat(n, d) ==
    LET lowest[x \in Int, y \in Int] ==
            LET g == GCD(Abs(x), Abs(y))
                s == IF y < 0 THEN -1 ELSE 1
            IN  <<(s * x) \div g, (s * y) \div g>>
    IN  lowest[n, d]

RInt(n) == <<n, 1>>
\* The arithmetic of the placement code on rationals p, q.  Each operation is
\* the application of a function, so that its operands are evaluated once.
RMul(a, b) ==
    LET mul[p \in Int \X Int, q \in Int \X Int] == Rat(p[1] * q[1], p[2] * q[2])
    IN  mul[a, b]
RDiv(a, b) ==
    LET div[p \in Int \X Int, q \in Int \X Int] == Rat(p[1] * q[2], p[2] * q[1])
    IN  div[a, b]
RAdd(a, b) ==
    LET add[p \in Int \X Int, q \in Int \X Int] ==
            Rat(p[1] * q[2] + q[1] * p[2], p[2] * q[2])
    IN  add[a, b]
RSub(a, b) ==
    LET sub[p \in Int \X Int, q \in Int \X Int] ==
            Rat(p[1] * q[2] - q[1] * p[2], p[2] * q[2])
    IN  sub[a, b]
RLe(a, b) ==
    LET le[p \in Int \X Int, q \in Int \X Int] == p[1] * q[2] <= q[1] * p[2]
    IN  le[a, b]
RLt(a, b) ==
    LET lt[p \in Int \X Int, q \in Int \X Int] == p[1] * q[2] < q[1] * p[2]
    IN  lt[a, b]
\* Math.min / Math.max of two numbers.
RMin(a, b) ==
    LET min[p \in Int \X Int, q \in Int \X Int] == IF RLe(p, q) THEN p ELSE q
    IN  min[a, b]
RMax(a, b) ==
    LET max[p \in Int \X Int, q \in Int \X Int] == IF RLe(p, q) THEN q ELSE p
    IN  max[a, b]

\* ------------------------------------------------------- component tables
\* pageSizes (lines 341-347): key -> width and height in millimetres.
pageSizes ==
    [letter  |-> [width |-> Rat(2159, 10), height |-> Rat(2794, 10)],
     legal   |-> [width |-> Rat(2159, 10), height |-> Rat(3556, 10)],
     tabloid |-> [width |-> Rat(2794, 10), height |-> Rat(4318, 10)],
     a4      |-> [width |-> RInt(210),     height |-> RInt(297)],
     a3      |-> [width |-> RInt(297),     height |-> RInt(420)]]

PageKeys == DOMAIN pageSizes

\* marginOptions (lines 349-356): the values of the margin select, in percent.
marginOptionsWithHalf == {0, 2, 5, 10, 15, 20, 50}

marginOptions == {0, 2, 5, 10, 15, 20}

Rotations == {0, 90, 180, 270}
Directions == {"clockwise", "counterclockwise"}

\* ------------------------------------------------------- placement (pure)
\* Lines 426-435: the canvas takes the image's intrinsic size, swapped when
\* the rotation is 90 or 270.
CanvasSizeOnly90(w, h, rotation) ==
    IF rotation = 90
        THEN [width |-> h, height |-> w]
        ELSE [width |-> w, height |-> h]

CanvasSize(w, h, rotation) ==
    IF rotation = 90 \/ rotation = 270
        THEN [width |-> h, height |-> w]
        ELSE [width |-> w, height |-> h]

\* Lines 455-457: the drawing area left by the margin on one page dimension.
AvailableIgnoresMargin(pageDim, marginSize) ==
    pageDim

Available(pageDim, marginSize) ==
    LET marginFactor == Rat(marginSize, 100)
    IN  RMul(pageDim, RSub(RInt(1), RMul(marginFactor, RInt(2))))

\* Line 459: the uniform scale.
RatioMax(availableWidth, availableHeight, imgWidth, imgHeight) ==
    RMax(RDiv(availableWidth, imgWidth), RDiv(availableHeight, imgHeight))

Ratio(availableWidth, availableHeight, imgWidth, imgHeight) ==
    RMin(RDiv(availableWidth, imgWidth), RDiv(availableHeight, imgHeight))

\* Lines 465-466: the offset that centres a scaled dimension on the page.
CenterNotHalved(pageDim, imgDim) ==
    RSub(pageDim, imgDim)

Center(pageDim, imgDim) ==
    RDiv(RSub(pageDim, imgDim), RInt(2))

\* Lines 447-470: the rectangle handed to pdf.addImage for a canvas of the
\* given size on a page of the given size.
Placement(canvas, pageWidth, pageHeight, marginSize) ==
    LET availableWidth  == Available(pageWidth, marginSize)
        availableHeight == Available(pageHeight, marginSize)
        ratio == Ratio(availableWidth, availableHeight,
                       RInt(canvas.width), RInt(canvas.height))
        imgWidth  == RMul(RInt(canvas.width), ratio)
        imgHeight == RMul(RInt(canvas.height), ratio)
    IN  [x |-> Center(pageWidth, imgWidth),
         y |-> Center(pageHeight, imgHeight),
         width |-> imgWidth, height |-> imgHeight]

\* -------------------------------------------------------------------- state
VARIABLES
    images,      \* useState<ImageFile[]>: sequence of [id, file, rotation]
    nextId,      \* number of files dropped so far
    pageSize,    \* useState<string>: key of pageSizes
    marginSize,  \* useState<number>: margin in percent
    converting,  \* useState(false)
    progress,    \* useState(0): a rational
    pc,          \* position of the convertToPdf call: idle, await, stalled, done
    run,         \* what the current or last convertToPdf call closed over, its
                 \* locals, and noCtx: the indices whose iteration took
                 \* `continue` for want of a 2d context
    loading,     \* indices i whose img.src is set and whose onload is pending
    pdf,         \* the jsPDF document of the current or last run
    calls,       \* the calls made on the jsPDF document, in order
    reports,     \* the values passed to setProgress by the run, in order
    userOps,     \* user events since the current run started
    lastOp       \* what ran last: init, the name of a UI handler,
                 \* convertToPdf, convertToPdfEmpty, onload or onerror

vars == <<images, nextId, pageSize, marginSize, converting, progress, pc, run, loading,
          pdf, calls, reports, userOps, lastOp>>

runVars == <<pc, run, loading, pdf, calls, reports>>
uiVars == <<images, nextId, pageSize, marginSize>>

\* The k-th file the user drops in the component specification.  A file is
\* modelled by the intrinsic size img.width x img.height its decode yields
\* (lines 426-427): a portrait, a landscape and a square bitmap in turn.
DroppedFile(k) == [width |-> 1 + (k % 3), height |-> 1 + ((2 * k) % 3)]

\* Page sizes and margins the user picks in the component specification.
UserPageChoices == {"letter", "a4"}
UserMarginChoices == {2, 10}

NoRun == [images |-> <<>>, pageSize |-> pageSizes["letter"], marginSize |-> 0,
          totalImages |-> 0, processedImages |-> 0, noCtx |-> {}]
NoPdf == [pages |-> <<>>, saved |-> <<>>]

\* Lines 335-339.
Init ==
    /\ images = <<>>
    /\ nextId = 0
    /\ pageSize = "letter"
    /\ marginSize = 2
    /\ converting = FALSE
    /\ progress = RInt(0)
    /\ pc = "idle"
    /\ run = NoRun
    /\ loading = {}
    /\ pdf = NoPdf
    /\ calls = <<>>
    /\ reports = <<>>
    /\ userOps = 0
    /\ lastOp = "init"

\* A user event is taken; while a run is in progress or has ended the events
\* are counted against MaxUserOps.
UserEventSeenByRun(name) ==
    /\ pc = "idle" \/ userOps < MaxUserOps
    /\ userOps' = IF pc = "idle" THEN 0 ELSE userOps + 1
    /\ lastOp' = name
    /\ run' = IF pc = "await"
                 THEN [run EXCEPT !.pageSize = pageSizes[pageSize'],
                                  !.marginSize = marginSize']
                 ELSE run
    /\ UNCHANGED <<converting, progress, pc, loading, pdf, calls, reports>>

UserEvent(name) ==
    /\ pc = "idle" \/ userOps < MaxUserOps
    /\ userOps' = IF pc = "idle" THEN 0 ELSE userOps + 1
    /\ lastOp' = name
    /\ UNCHANGED <<converting, progress>>
    /\ UNCHANGED runVars

\* ------------------------------------------------------------ UI handlers
\* Lines 362-370: the dropped files become images with rotation 0, appended.
\* Math.random().toString(36).substring(2, 11) (line 364) is modelled by a
\* draw that never repeats: the k-th dropped file gets the id k.
NewImages(acceptedFiles) ==
    [k \in DOMAIN acceptedFiles |->
        [id |-> acceptedFiles[k].id, file |-> acceptedFiles[k].file,
         rotation |-> 0]]

onDrop ==
    \E n \in 0..MaxDrop :
        /\ nextId + n <= MaxImages
        /\ LET acceptedFiles ==
                   [k \in 1..n |-> [id |-> nextId + k,
                                    file |-> DroppedFile(nextId + k)]]
           IN  images' = images \o NewImages(acceptedFiles)
        /\ nextId' = nextId + n
        /\ UNCHANGED <<pageSize, marginSize>>
        /\ UserEvent("onDrop")

\* Lines 373-386.
RotatedNoWrap(rotation, direction) ==
    LET change == IF direction = "clockwise" THEN 90 ELSE -90
    IN  rotation + change

Rotated(rotation, direction) ==
    LET change == IF direction = "clockwise" THEN 90 ELSE -90
    IN  (rotation + change + 360) % 360

rotateImageAll ==
    \E k \in DOMAIN images, direction \in Directions :
        /\ images' = [j \in DOMAIN images |->
                         [images[j] EXCEPT !.rotation = Rotated(@, direction)]]
        /\ UNCHANGED <<nextId, pageSize, marginSize>>
        /\ UserEvent("rotateImage")

rotateImage ==
    \E k \in DOMAIN images, direction \in Directions :
        LET id == images[k].id
        IN  /\ images' = [j \in DOMAIN images |->
                             IF images[j].id = id
                                 THEN [images[j] EXCEPT
                                          !.rotation = Rotated(@, direction)]
                                 ELSE images[j]]
            /\ UNCHANGED <<nextId, pageSize, marginSize>>
            /\ UserEvent("rotateImage")

\* Lines 388-390.
RECURSIVE Filter(_, _)
Filter(s, id) ==
    IF s = <<>> THEN <<>>
    ELSE IF Head(s).id # id THEN <<Head(s)>> \o Filter(Tail(s), id)
         ELSE Filter(Tail(s), id)

removeImage ==
    \E k \in DOMAIN images :
        /\ images' = Filter(images, images[k].id)
        /\ UNCHANGED <<nextId, pageSize, marginSize>>
        /\ UserEvent("removeImage")

\* Lines 392-394; the button is rendered only while the list is non-empty
\* (line 535).
clearAllImagesAborts ==
    /\ Len(images) > 0
    /\ images' = <<>>
    /\ pc = "idle" \/ userOps < MaxUserOps
    /\ userOps' = IF pc = "idle" THEN 0 ELSE userOps + 1
    /\ lastOp' = "clearAllImages"
    /\ pc' = IF pc = "await" THEN "idle" ELSE pc
    /\ loading' = {}
    /\ UNCHANGED <<nextId, pageSize, marginSize, converting, progress, run, pdf,
                   calls, reports>>

clearAllImages ==
    /\ Len(images) > 0
    /\ images' = <<>>
    /\ UNCHANGED <<nextId, pageSize, marginSize>>
    /\ UserEvent("clearAllImages")

\* Line 579: the page-size select hands the chosen key to setPageSize; the
\* settings card is rendered only while the list is non-empty (line 568).
setPageSize ==
    \E key \in UserPageChoices :
        /\ Len(images) > 0
        /\ pageSize' = key
        /\ UNCHANGED <<images, nextId, marginSize>>
        /\ UserEvent("setPageSize")

\* Lines 595-606: an option carries option.value.toString(); the handler
\* stores Number.parseInt of the chosen string.  Strings of digits are
\* modelled as sequences of digits.
RECURSIVE toString(_)
toString(n) == IF n < 10 THEN <<n>> ELSE Append(toString(n \div 10), n % 10)

RECURSIVE parseInt(_)
parseInt(s) ==
    IF Len(s) = 1 THEN s[1]
    ELSE 10 * parseInt(SubSeq(s, 1, Len(s) - 1)) + s[Len(s)]

setMarginSize ==
    \E option \in UserMarginChoices :
        /\ Len(images) > 0
        /\ marginSize' = parseInt(toString(option))
        /\ UNCHANGED <<images, nextId, pageSize>>
        /\ UserEvent("setMarginSize")

\* ----------------------------------------------------------- convertToPdf
\* new jsPDF({format: [width, height]}) (lines 403-407): a document with one
\* initial page of the given size and nothing on it.
NewPdf(size) ==
    [pages |-> <<[width |-> size.width, height |-> size.height, images |-> <<>>]>>,
     saved |-> <<>>]

\* pdf.addPage([width, height]) (line 444): appends a page, which becomes the
\* current page.
AddPage(d, size) ==
    [d EXCEPT !.pages =
        Append(@, [width |-> size.width, height |-> size.height, images |-> <<>>])]

\* pdf.addImage(imgData, "JPEG", x, y, w, h) (line 470): draws on the current
\* (last) page.
AddImage(d, imgData, rect) ==
    [d EXCEPT !.pages[Len(d.pages)].images =
        Append(@, [imgData |-> imgData, x |-> rect.x, y |-> rect.y,
                   width |-> rect.width, height |-> rect.height])]

\* pdf.save(name) (line 482).
Save(d, name) == [d EXCEPT !.saved = Append(@, name)]

\* The for loop (lines 412-479) resumed at index j (1-based: the source's
\* i = j - 1), with document d, call log c and `converting` value conv.
\* Any number of consecutive iterations may fail to get a 2d context and
\* `continue` (line 419); the first one that gets a context sets img.src and
\* suspends at the await (lines 424, 477).  When the list is exhausted the
\* document is saved and converting is cleared (lines 482-483).
LoopNoAwait(j, d, c, conv, r) ==
    \E skipped \in SUBSET (j..Len(r.images)) :
        /\ run' = [r EXCEPT !.noCtx = @ \cup skipped]
        /\ loading' = loading \cup ((j..Len(r.images)) \ skipped)
        /\ pc' = "done"
        /\ pdf' = Save(d, "converted-images.pdf")
        /\ calls' = Append(c, [op |-> "save", name |-> "converted-images.pdf"])
        /\ converting' = FALSE

Loop(j, d, c, conv, r) ==
    \E s \in 0..(Len(r.images) + 1 - j) :
        /\ run' = [r EXCEPT !.noCtx = @ \cup (j..(j + s - 1))]
        /\ IF j + s <= Len(r.images)
              THEN /\ loading' = {j + s}
                   /\ pc' = "await"
                   /\ pdf' = d
                   /\ calls' = c
                   /\ converting' = conv
              ELSE /\ loading' = {}
                   /\ pc' = "done"
                   /\ pdf' = Save(d, "converted-images.pdf")
                   /\ calls' = Append(c, [op |-> "save",
                                           name |-> "converted-images.pdf"])
                   /\ converting' = FALSE

\* Line 633: the Convert button is disabled while converting or while the
\* list is empty.
ConvertDisabledOnEmptyOnly == Len(images) = 0

ConvertDisabled == converting \/ Len(images) = 0

\* Line 397: called with an empty list, convertToPdf returns at once.
convertToPdfEmptyUnguarded ==
    /\ Len(images) = 0
    /\ progress' = RInt(0)
    /\ converting' = FALSE
    /\ pc' = "done"
    /\ run' = [NoRun EXCEPT !.pageSize = pageSizes[pageSize],
                             !.marginSize = marginSize]
    /\ loading' = {}
    /\ pdf' = Save(NewPdf(pageSizes[pageSize]), "converted-images.pdf")
    /\ calls' = <<[op |-> "new", width |-> pageSizes[pageSize].width,
                    height |-> pageSizes[pageSize].height],
                   [op |-> "save", name |-> "converted-images.pdf"]>>
    /\ reports' = <<>>
    /\ lastOp' = "convertToPdfEmpty"
    /\ UNCHANGED <<images, nextId, pageSize, marginSize, userOps>>

convertToPdfEmpty ==
    /\ Len(images) = 0
    /\ lastOp' = "convertToPdfEmpty"
    /\ UNCHANGED <<images, nextId, pageSize, marginSize, converting, progress, userOps>>
    /\ UNCHANGED runVars

\* Lines 396-424: a click on the enabled Convert button.  The call closes over
\* the images, pageSize and marginSize of the render it was created in, sets
\* converting and progress, creates the document and enters the loop.
convertToPdfStart ==
    /\ ~ConvertDisabled
    /\ Len(images) # 0
    /\ progress' = RInt(0)
    /\ reports' = <<>>
    /\ LET selectedPageSize == pageSizes[pageSize]
           r == [images |-> images, pageSize |-> selectedPageSize,
                 marginSize |-> marginSize, totalImages |-> Len(images),
                 processedImages |-> 0, noCtx |-> {}]
       IN  Loop(1, NewPdf(selectedPageSize),
                <<[op |-> "new", width |-> selectedPageSize.width,
                   height |-> selectedPageSize.height]>>,
                TRUE, r)
    /\ userOps' = 0
    /\ lastOp' = "convertToPdf"
    /\ UNCHANGED uiVars

\* Lines 425-476, then the loop's next iterations: the decode of image j has
\* completed.  The canvas gets the rotated bitmap, a page is added unless this
\* is the list's first image (the source's i > 0), the rectangle is computed on
\* the current page, the canvas is drawn there, and progress is reported.
ImgData(image, canvas) ==
    [file |-> image.file, rotation |-> image.rotation,
     width |-> canvas.width, height |-> canvas.height]

ProgressValue(processedImages, totalImages) ==
    RMul(Rat(processedImages, totalImages), RInt(100))

onload ==
    \E j \in loading :
        LET image == run.images[j]
            canvas == CanvasSize(image.file.width, image.file.height, image.rotation)
            d1 == IF j > 1 THEN AddPage(pdf, run.pageSize) ELSE pdf
            c1 == IF j > 1
                    THEN Append(calls, [op |-> "addPage", width |-> run.pageSize.width,
                                        height |-> run.pageSize.height])
                    ELSE calls
            page == d1.pages[Len(d1.pages)]
            rect == Placement(canvas, page.width, page.height, run.marginSize)
            imgData == ImgData(image, canvas)
            d2 == AddImage(d1, imgData, rect)
            c2 == Append(c1, [op |-> "addImage", i |-> j, imgData |-> imgData,
                              x |-> rect.x, y |-> rect.y,
                              width |-> rect.width, height |-> rect.height])
            processedImages == run.processedImages + 1
            value == ProgressValue(processedImages, run.totalImages)
        IN  /\ pc = "await"
            /\ progress' = value
            /\ reports' = Append(reports, value)
            /\ Loop(j + 1, d2, c2, converting,
                    [run EXCEPT !.processedImages = processedImages])
            /\ lastOp' = "onload"
            /\ UNCHANGED <<userOps, images, nextId, pageSize, marginSize>>

\* The decode of image j fails.  No onerror handler is set (lines 421-477), so
\* the promise never resolves and the call stays suspended for good.
onerrorResolves ==
    \E j \in loading :
        /\ pc = "await"
        /\ Loop(j + 1, pdf, calls, converting, run)
        /\ lastOp' = "onerror"
        /\ UNCHANGED <<images, nextId, pageSize, marginSize, progress, reports, userOps>>

onerror ==
    \E j \in loading :
        /\ pc = "await"
        /\ loading' = loading \ {j}
        /\ pc' = "stalled"
        /\ lastOp' = "onerror"
        /\ UNCHANGED <<images, nextId, pageSize, marginSize, converting, progress, run,
                       pdf, calls, reports, userOps>>

\* ------------------------------------------------------------ specification
Next ==
    \/ onDrop
    \/ rotateImage
    \/ removeImage
    \/ clearAllImages
    \/ setPageSize
    \/ setMarginSize
    \/ convertToPdfEmpty
    \/ convertToPdfStart
    \/ onload
    \/ onerror

Spec == Init /\ [][Next]_vars

\* The component when every decode completes: no decode fails, and a decode
\* that is pending is eventually delivered to img.onload.
NextLive ==
    \/ onDrop
    \/ rotateImage
    \/ removeImage
    \/ clearAllImages
    \/ setPageSize
    \/ setMarginSize
    \/ convertToPdfEmpty
    \/ convertToPdfStart
    \/ onload

SpecLive == Init /\ [][NextLive]_vars /\ WF_vars(onload)

\* The placement specification: one conversion run over a single image of any
\* intrinsic size up to MaxDim, or of 800 x 600 pixels, and any rotation, on
\* every page size and with every margin of the component's tables.
PlaceFiles ==
    {[width |-> w, height |-> h] : w \in 1..MaxDim, h \in 1..MaxDim}
        \cup {[width |-> 800, height |-> 600]}

InitPlace ==
    /\ \E file \in PlaceFiles, r \in Rotations :
           images = <<[id |-> 1, file |-> file, rotation |-> r]>>
    /\ nextId = 1
    /\ pageSize \in PageKeys
    /\ marginSize \in marginOptions
    /\ converting = FALSE
    /\ progress = RInt(0)
    /\ pc = "idle"
    /\ run = NoRun
    /\ loading = {}
    /\ pdf = NoPdf
    /\ calls = <<>>
    /\ reports = <<>>
    /\ userOps = 0
    /\ lastOp = "init"

NextPlace ==
    \/ convertToPdfStart
    \/ onload

SpecPlace == InitPlace /\ [][NextPlace]_vars

\* The settings specification: the component after one file was dropped, with
\* both selects offering every option of their tables (lines 584-588 render
\* one item per key of pageSizes, lines 602-606 one per entry of
\* marginOptions), and conversion runs.
InitSettings ==
    /\ images = NewImages(<<[id |-> 1, file |-> DroppedFile(1)]>>)
    /\ nextId = 1
    /\ pageSize = "letter"
    /\ marginSize = 2
    /\ converting = FALSE
    /\ progress = RInt(0)
    /\ pc = "idle"
    /\ run = NoRun
    /\ loading = {}
    /\ pdf = NoPdf
    /\ calls = <<>>
    /\ reports = <<>>
    /\ userOps = 0
    /\ lastOp = "onDrop"

selectPageSize ==
    \E key \in PageKeys :
        /\ Len(images) > 0
        /\ pageSize' = key
        /\ UNCHANGED <<images, nextId, marginSize>>
        /\ UserEvent("setPageSize")

selectMarginSize ==
    \E option \in marginOptions :
        /\ Len(images) > 0
        /\ marginSize' = parseInt(toString(option))
        /\ UNCHANGED <<images, nextId, pageSize>>
        /\ UserEvent("setMarginSize")

NextSettings ==
    \/ selectPageSize
    \/ selectMarginSize
    \/ convertToPdfStart
    \/ onload

SpecSettings == InitSettings /\ [][NextSettings]_vars

\* ------------------------------------------------------------------ claims
\* The addImage calls of the run, in order.
IsAddImage(c) == c.op = "addImage"
Placed == SelectSeq(calls, IsAddImage)
IsSave(c) == c.op = "save"
Saves == SelectSeq(calls, IsSave)
\* The input images whose pdf.addImage call has been made.
PlacedIndices == {Placed[k].i : k \in DOMAIN Placed}

\* C1: when a run over n images has ended, the document has exactly n pages
\* and page k holds exactly the image that was at position k of the list.
C1_PageKHoldsImageK ==
    pc = "done" =>
        /\ Len(pdf.pages) = Len(run.images)
        /\ \A k \in 1..Len(run.images) :
              /\ Len(pdf.pages[k].images) = 1
              /\ pdf.pages[k].images[1].imgData.file = run.images[k].file
              /\ pdf.pages[k].images[1].imgData.rotation = run.images[k].rotation

\* C2: a call of convertToPdf with an empty image list changes nothing: no
\* document, no page, no image, no save, converting and progress as before.
C2_EmptyCallIsNoOp ==
    [][(Len(images) = 0 /\ lastOp' = "convertToPdfEmpty") =>
         UNCHANGED <<images, nextId, pageSize, marginSize, converting, progress,
                     pc, run, loading, pdf, calls, reports>>]_vars

\* The empty call was made while an earlier run was suspended with progress
\* already reported and the list cleared since.
C2_Witness ==
    /\ lastOp = "convertToPdfEmpty"
    /\ converting
    /\ pc = "await"
    /\ progress = RInt(50)
    /\ Len(calls) = 2

\* C3: the calls on the document follow the page protocol: the first image is
\* placed on the initial page with no addPage before it, every later image is
\* preceded by exactly one addPage of the selected size, and when the run has
\* ended every page holds exactly one image.
CallsAfterNew == SubSeq(calls, 2, Len(calls) - Len(Saves))

C3_PageProtocol ==
    /\ \A p \in DOMAIN CallsAfterNew :
          IF p % 2 = 1
              THEN CallsAfterNew[p].op = "addImage"
              ELSE /\ CallsAfterNew[p].op = "addPage"
                   /\ CallsAfterNew[p].width = run.pageSize.width
                   /\ CallsAfterNew[p].height = run.pageSize.height
    /\ pc = "done" =>
          \A k \in DOMAIN pdf.pages : Len(pdf.pages[k].images) = 1

DrawnOnPages ==
    UNION {{[page |-> pdf.pages[k], img |-> pdf.pages[k].images[q]] :
               q \in DOMAIN pdf.pages[k].images} : k \in DOMAIN pdf.pages}

\* PW * (1 - 2m) for a page dimension and the margin of the run, m in percent.
Inside(pageDim) == RMul(pageDim, Rat(100 - 2 * run.marginSize, 100))

\* C5: every placed image fits the margined area, sw <= PW(1-2m) and
\* sh <= PH(1-2m), and fills it in at least one of the two dimensions.
C5_FitsTight ==
    \A d \in DrawnOnPages :
        /\ RLe(d.img.width, Inside(d.page.width))
        /\ RLe(d.img.height, Inside(d.page.height))
        /\ \/ d.img.width = Inside(d.page.width)
           \/ d.img.height = Inside(d.page.height)

\* A rotated image that fills the height of the margined area and not its
\* width.
C5_Witness ==
    \E d \in DrawnOnPages :
        /\ d.img.imgData.rotation = 90
        /\ run.marginSize = 20
        /\ d.img.height = Inside(d.page.height)
        /\ RLt(d.img.width, Inside(d.page.width))

\* C6: every placed image is centred on the full page, x + sw/2 = PW/2 and
\* y + sh/2 = PH/2, so the border left of it equals the border right of it
\* and the border above it equals the border below it.
C6_Centred ==
    \A d \in DrawnOnPages :
        /\ RAdd(d.img.x, RDiv(d.img.width, RInt(2))) = RDiv(d.page.width, RInt(2))
        /\ RAdd(d.img.y, RDiv(d.img.height, RInt(2))) = RDiv(d.page.height, RInt(2))
        /\ d.img.x = RSub(d.page.width, RAdd(d.img.x, d.img.width))
        /\ d.img.y = RSub(d.page.height, RAdd(d.img.y, d.img.height))

\* An image placed with a border on every side, wider above than beside.
C6_Witness ==
    \E d \in DrawnOnPages :
        /\ run.marginSize = 10
        /\ d.page.width = pageSizes["tabloid"].width
        /\ RLt(RInt(0), d.img.x)
        /\ RLt(d.img.x, d.img.y)

\* C7: the canvas, and the dimensions that enter the scaling, are the
\* intrinsic width and height for rotation 0 or 180 and the swapped pair for
\* rotation 90 or 270.
C7_EffectiveDims ==
    \A k \in DOMAIN Placed :
        LET c == Placed[k]
            image == run.images[c.i]
            swap == image.rotation \in {90, 270}
            ew == IF swap THEN image.file.height ELSE image.file.width
            eh == IF swap THEN image.file.width ELSE image.file.height
            scale == RMin(RDiv(Inside(run.pageSize.width), RInt(ew)),
                          RDiv(Inside(run.pageSize.height), RInt(eh)))
        IN  /\ c.imgData.width = ew
            /\ c.imgData.height = eh
            /\ c.width = RMul(RInt(ew), scale)
            /\ c.height = RMul(RInt(eh), scale)

\* An image that is not square was placed with rotation 270.
C7_Witness ==
    \E k \in DOMAIN Placed :
        /\ Placed[k].imgData.rotation = 270
        /\ run.images[Placed[k].i].file.width = 3
        /\ run.images[Placed[k].i].file.height = 1
        /\ Placed[k].imgData.width = 1
        /\ Placed[k].imgData.height = 3

\* C8: after every step each image's rotation is one of 0, 90, 180, 270, and
\* the images a step adds to the list have rotation 0.
C8_RotationsAreQuarterTurns ==
    [][/\ \A k \in DOMAIN images' : images'[k].rotation \in Rotations
       /\ \A k \in (Len(images) + 1)..Len(images') : images'[k].rotation = 0]_vars

\* Both images were turned after they were added, one of them to 270.
C8_Witness ==
    /\ Len(images) = 2
    /\ images[1].rotation = 180
    /\ images[2].rotation = 270

\* C9: progress is 0 until the first report, the k-th report of a run over n
\* images is (k/n)*100, one report follows each placed image, the reports lie
\* in [0,100] and never decrease, and the last report before save is 100.
C9_ProgressReports ==
    /\ pc # "idle" =>
          /\ Len(reports) = Len(Placed)
          /\ reports = <<>> => progress = RInt(0)
          /\ \A k \in DOMAIN reports :
                /\ reports[k] = Rat(100 * k, run.totalImages)
                /\ RLe(RInt(0), reports[k])
                /\ RLe(reports[k], RInt(100))
                /\ k > 1 => RLe(reports[k - 1], reports[k])
    /\ pc = "done" =>
          /\ reports # <<>>
          /\ reports[Len(reports)] = RInt(100)

\* C10: save is called at most once, with the name "converted-images.pdf",
\* only after every image of the list has been placed, and it is the last
\* call made on the document.
C10_SaveOnceAfterAllPlaced ==
    /\ Len(Saves) <= 1
    /\ \A p \in DOMAIN calls :
          calls[p].op = "save" =>
              /\ calls[p].name = "converted-images.pdf"
              /\ p = Len(calls)
              /\ PlacedIndices = 1..Len(run.images)
    /\ pdf.saved = [k \in DOMAIN Saves |-> Saves[k].name]

\* C11: when every decode completes, a run that has started ends: save is
\* called and converting is false again, whatever the user does meanwhile.
C11_RunCompletes ==
    (pc = "await") ~> (pc = "done" /\ ~converting /\ Len(Saves) = 1)

\* A run has just ended although the user cleared the list while it ran.
C11_Witness ==
    /\ pc = "done"
    /\ lastOp = "onload"
    /\ userOps = 1
    /\ images = <<>>
    /\ ~converting
    /\ Len(Saves) = 1

\* C12: a decode that never completes stalls the run for good: from then on
\* save is never called, nothing more is decoded or placed, nothing is retried,
\* and converting stays true.
C12_StalledRunIsFrozen ==
    [][ /\ lastOp' = "onerror" => pc = "await" /\ pc' = "stalled"
        /\ pc = "stalled" => pc' = "stalled"
        /\ pc' = "stalled" =>
              /\ converting' /\ loading' = {}
              /\ Len(Saves') = 0
              /\ UNCHANGED <<pdf, calls, run, reports, progress>> ]_vars

\* The second decode of a two-image run failed after the first image was
\* placed, and the user has cleared the list since.
C12_Witness ==
    /\ pc = "stalled" /\ lastOp = "clearAllImages"
    /\ Len(Placed) = 1 /\ Len(Saves) = 0 /\ converting

\* C13: the selected margin is always one of 0, 2, 5, 10, 15, 20 percent and
\* the selected page size one of the keys of the geometry table, so the
\* available width and height and the scale of every placement are strictly
\* positive.
C13_SettingsKeepAreaPositive ==
    /\ marginSize \in {0, 2, 5, 10, 15, 20}
    /\ pageSize \in {"letter", "legal", "tabloid", "a4", "a3"}
    /\ RLt(RInt(0), Available(pageSizes[pageSize].width, marginSize))
    /\ RLt(RInt(0), Available(pageSizes[pageSize].height, marginSize))
    /\ pc # "idle" =>
          /\ run.marginSize \in {0, 2, 5, 10, 15, 20}
          /\ \E key \in PageKeys : run.pageSize = pageSizes[key]
          /\ \A k \in 1..Len(run.images) :
                LET image == run.images[k]
                    canvas == CanvasSize(image.file.width, image.file.height,
                                         image.rotation)
                    availableWidth == Available(run.pageSize.width, run.marginSize)
                    availableHeight == Available(run.pageSize.height, run.marginSize)
                IN  /\ RLt(RInt(0), availableWidth)
                    /\ RLt(RInt(0), availableHeight)
                    /\ RLt(RInt(0), Ratio(availableWidth, availableHeight,
                                          RInt(canvas.width), RInt(canvas.height)))
    /\ \A k \in 1..Len(Placed) :
          RLt(RInt(0), Placed[k].width) /\ RLt(RInt(0), Placed[k].height)

\* A run made with the widest margin on the largest page has placed its image.
C13_Witness ==
    /\ pc = "done" /\ lastOp = "onload" /\ Len(Placed) = 1
    /\ run.marginSize = 20 /\ run.pageSize = pageSizes["a3"]

\* C14: rotateImage changes the rotation of the one image with the given id by
\* a quarter turn and nothing else of the list; removeImage deletes that one
\* image and keeps the others in order; clearAllImages empties the list; a
\* drop appends images with rotation 0; no other step changes the list.
C14_ListChangesAsLifecycleAllows ==
    [][ /\ lastOp' = "rotateImage" =>
              \E k \in DOMAIN images :
                  /\ DOMAIN images' = DOMAIN images
                  /\ \A j \in DOMAIN images \ {k} : images'[j] = images[j]
                  /\ images'[k].id = images[k].id
                  /\ images'[k].file = images[k].file
                  /\ DOMAIN images'[k] = DOMAIN images[k]
                  /\ images'[k].rotation \in
                         {(images[k].rotation + 90) % 360,
                          (images[k].rotation + 270) % 360}
        /\ lastOp' = "removeImage" =>
              \E k \in DOMAIN images :
                  images' = SubSeq(images, 1, k - 1)
                               \o SubSeq(images, k + 1, Len(images))
        /\ lastOp' = "clearAllImages" => Len(images) > 0 /\ images' = <<>>
        /\ lastOp' = "onDrop" =>
              /\ Len(images') >= Len(images)
              /\ SubSeq(images', 1, Len(images)) = images
              /\ \A j \in (Len(images) + 1)..Len(images') :
                     images'[j].rotation = 0
        /\ lastOp' \notin {"rotateImage", "removeImage", "clearAllImages", "onDrop"}
              => images' = images ]_vars

\* The second of two images was turned and the first then removed: the list
\* holds the second image alone, still turned.
C14_Witness ==
    /\ lastOp = "removeImage" /\ Len(images) = 1
    /\ images[1].id = 2 /\ images[1].rotation = 270

\* C15: an 800 x 600 image on a Letter page with a 10% margin is placed with
\* width 172.72, height 129.54, x 21.59, y 74.93 at rotation 0, and with width
\* 167.64, height 223.52, x 24.13, y 27.94 at rotation 90.
C15_LetterScenario ==
    \A k \in DOMAIN Placed :
        LET c == Placed[k]
            image == run.images[c.i]
        IN  (/\ image.file = [width |-> 800, height |-> 600]
             /\ run.pageSize = pageSizes["letter"]
             /\ run.marginSize = 10)
            => /\ image.rotation = 0 =>
                     /\ c.width = Rat(17272, 100) /\ c.height = Rat(12954, 100)
                     /\ c.x = Rat(2159, 100) /\ c.y = Rat(7493, 100)
               /\ image.rotation = 90 =>
                     /\ c.width = Rat(16764, 100) /\ c.height = Rat(22352, 100)
                     /\ c.x = Rat(2413, 100) /\ c.y = Rat(2794, 100)

\* The 800 x 600 image, turned to 90, has been placed on Letter with 10%.
C15_Witness ==
    /\ Len(Placed) = 1
    /\ run.images[1].file = [width |-> 800, height |-> 600]
    /\ run.images[1].rotation = 90
    /\ run.pageSize = pageSizes["letter"] /\ run.marginSize = 10
    /\ Placed[1].height = Rat(22352, 100)

\* C16: a run works on the image list, rotations, page size and margin it
\* found when it started.  User events taken while it runs change neither what
\* it closed over nor the document, the call log, the pending decode or the
\* progress reports, and every page and placement it emits is computed from
\* what it closed over, in list order, and added after those emitted before.
C16_RunWorksOnSnapshot ==
    [][ /\ lastOp' = "convertToPdf" =>
              /\ run'.images = images
              /\ run'.pageSize = pageSizes[pageSize]
              /\ run'.marginSize = marginSize
        /\ lastOp' # "convertToPdf" =>
              /\ run'.images = run.images
              /\ run'.pageSize = run.pageSize
              /\ run'.marginSize = run.marginSize
        /\ lastOp' \in {"onDrop", "rotateImage", "removeImage", "clearAllImages",
                        "setPageSize", "setMarginSize"} =>
              UNCHANGED <<pc, run, loading, pdf, calls, reports>>
        /\ \A p \in DOMAIN pdf'.pages :
              /\ pdf'.pages[p].width = run'.pageSize.width
              /\ pdf'.pages[p].height = run'.pageSize.height
        /\ lastOp' = "onload" =>
              /\ SubSeq(calls', 1, Len(calls)) = calls
              /\ \A k \in (Len(calls) + 1)..Len(calls') :
                    calls'[k].op = "addImage" =>
                        LET c == calls'[k]
                            image == run'.images[c.i]
                            canvas == CanvasSize(image.file.width, image.file.height,
                                                 image.rotation)
                        IN  /\ c.imgData.file = image.file
                            /\ c.imgData.rotation = image.rotation
                            /\ [x |-> c.x, y |-> c.y,
                                width |-> c.width, height |-> c.height]
                                  = Placement(canvas, run'.pageSize.width,
                                              run'.pageSize.height, run'.marginSize)
                            /\ \A j \in DOMAIN calls :
                                  calls[j].op = "addImage" => calls[j].i < c.i
        /\ lastOp' = "convertToPdf" =>
              \A k \in DOMAIN calls' : calls'[k].op \in {"new", "save"} ]_vars

\* A run over two images has ended with both placed, although the user chose
\* another margin while it ran.
C16_Witness ==
    /\ pc = "done" /\ lastOp = "onload" /\ userOps = 1
    /\ Len(Placed) = 2 /\ Len(pdf.pages) = 2
    /\ marginSize # run.marginSize

\* C17: at most one run is active.  converting is true exactly while a run is
\* between its start and its save; a run starts only when converting is false
\* and the list is non-empty, hence never while another run is in progress;
\* and while a run is in progress only its own decode steps touch the
\* document, the call log and the progress value.
C17_OneRunAtATime ==
    [][ /\ converting' <=> pc' \in {"await", "stalled"}
        /\ pc' = "done" => Len(Saves') = 1
        /\ lastOp' = "convertToPdf" =>
              /\ pc \in {"idle", "done"}
              /\ ~converting
              /\ Len(images) > 0
        /\ (pc \in {"await", "stalled"} /\ lastOp' # "onload") =>
              UNCHANGED <<pdf, calls, progress, reports, converting>> ]_vars

\* A run is suspended at its second decode with the list still non-empty, and
\* the user has just turned an image: the Convert button is disabled.
C17_Witness ==
    /\ pc = "await" /\ converting /\ ConvertDisabled
    /\ Len(images) = 2 /\ Len(Placed) = 1
    /\ lastOp = "rotateImage"

====
